---- MODULE Spec2Model ----
(***************************************************************************)
(* Track_bot: an aiogram dispatcher with an in-memory FSM storage, a       *)
(* PostgreSQL store with two tables (drivers, tasks) and one manager       *)
(* channel.  Updates are handled as concurrent asyncio tasks, so handlers  *)
(* of different users interleave at their awaits on the store and on the   *)
(* transport.  A handler is split into steps only where another user's     *)
(* handler can change what it has read (create_task: INSERT / lookup of    *)
(* the id; take_task and finish_task: SELECT / UPDATE).  A user has one    *)
(* update in flight at a time.                                             *)
(*                                                                         *)
(* A text is a sequence of one-character strings.  A nullable column, an   *)
(* optional row and an optional value are <<>> (NULL / None) or <<v>>.     *)
(***************************************************************************)
EXTENDS Integers, Sequences, FiniteSets, TLC

\* ------------------------------------------------------------------ bounds

\* cap on the number of rows of the tasks table (SERIAL task_id = 1..MaxTasks)
MaxTasks == 2

\* cap on the clock of the store (NOW() = 0..MaxTime)
MaxTime == 2

\* ------------------------------------------------------------------- users

Drivers  == {"d1", "d2"}
Managers == {"m1", "m2"}
Users    == Drivers \cup Managers

\* ------------------------------------------------------------------- texts

Digits     == {"0", "1", "2", "3", "4", "5", "6", "7", "8", "9"}
Whitespace == {" ", "\t", "\n"}
UpperCase  == <<"A","B","C","D","E","F","G","H","I","J","K","L","M",
                "N","O","P","Q","R","S","T","U","V","W","X","Y","Z">>
LowerCase  == <<"a","b","c","d","e","f","g","h","i","j","k","l","m",
                "n","o","p","q","r","s","t","u","v","w","x","y","z">>

\* str.lower(), one character
LowerChar(c) ==
    IF \E i \in 1..Len(UpperCase) : UpperCase[i] = c
    THEN LowerCase[CHOOSE i \in 1..Len(UpperCase) : UpperCase[i] = c]
    ELSE c

\* str.lower()
Lower(s) == [i \in 1..Len(s) |-> LowerChar(s[i])]

\* str.strip(): drops leading and trailing whitespace
Strip(s) ==
    LET keep == {i \in 1..Len(s) : s[i] \notin Whitespace}
    IN  IF keep = {} THEN <<>>
        ELSE LET lo == CHOOSE i \in keep : \A j \in keep : i <= j
                 hi == CHOOSE i \in keep : \A j \in keep : j <= i
             IN  SubSeq(s, lo, hi)

\* x in s, for strings
Contains(x, s) ==
    \E i \in 1..(Len(s) - Len(x) + 1) : SubSeq(s, i, i + Len(x) - 1) = x

\* a decimal digit outside ASCII (ARABIC-INDIC DIGIT ONE), one character
UnicodeDigits == {"ARABIC_1"}

\* what \d of a str pattern, str.isdigit() and int() take for a digit
DecimalDigits == Digits \cup UnicodeDigits

\* str.isdigit()
IsDigit(s) == Len(s) > 0 /\ \A i \in 1..Len(s) : s[i] \in DecimalDigits

DigitValue(c) ==
    CASE c = "0" -> 0 [] c = "1" -> 1 [] c = "2" -> 2 [] c = "3" -> 3
      [] c = "4" -> 4 [] c = "5" -> 5 [] c = "6" -> 6 [] c = "7" -> 7
      [] c = "8" -> 8 [] c = "9" -> 9 [] c = "ARABIC_1" -> 1

\* the largest value of an INTEGER (SERIAL) column
Int4Max == 2147483647

\* int(s) of a string of digits; -1 stands for every value above Int4Max
RECURSIVE ToInt(_)
ToInt(s) ==
    IF Len(s) = 0 THEN 0
    ELSE LET high == ToInt(SubSeq(s, 1, Len(s) - 1))
             d    == DigitValue(s[Len(s)])
         IN  IF high < 0 \/ high > (Int4Max - d) \div 10 THEN -1 ELSE 10 * high + d

\* PHONE_PATTERN with \d{8,14} for \d{9,14}
PHONE_PATTERN_9(s) ==
    LET r == IF Len(s) > 0 /\ s[1] = "+" THEN Tail(s) ELSE s
    IN  /\ Len(r) >= 9
        /\ Len(r) <= 15
        /\ r[1] \in Digits \ {"0"}
        /\ \A i \in 2..Len(r) : r[i] \in DecimalDigits

\* PHONE_PATTERN = ^\+?[1-9]\d{9,14}$, matched against a stripped text
PHONE_PATTERN(s) ==
    LET r == IF Len(s) > 0 /\ s[1] = "+" THEN Tail(s) ELSE s
    IN  /\ Len(r) >= 10
        /\ Len(r) <= 15
        /\ r[1] \in Digits \ {"0"}
        /\ \A i \in 2..Len(r) : r[i] \in DecimalDigits

\* BOL_PATTERN = ^\d{8,12}$, matched against a stripped text
BOL_PATTERN(s) ==
    /\ Len(s) >= 8
    /\ Len(s) <= 12
    /\ \A i \in 1..Len(s) : s[i] \in DecimalDigits

\* the denylist of the content filter; the two emoji tokens are one character each
Denylist == { <<"v","p","n">>, <<"h","t","t","p">>,
              <<"a","r","t","u","r","s","h","i">>, <<"LOCK">>, <<"FIRE">> }

\* IsSpam without the lower()
IsSpamCaseSensitive(field) == \E x \in Denylist : Contains(x, field)

\* any(x in field.lower() for x in [...])
IsSpam(field) ==
    LET lowered == Lower(field)
    IN  \E x \in Denylist : Contains(x, lowered)

\* the fixed menu labels and commands
NewShift    == <<"N","e","w"," ","S","h","i","f","t">>
NewCycle    == <<"N","e","w"," ","C","y","c","l","e">>
ResetBreak  == <<"R","e","s","e","t"," ","B","r","e","a","k">>
AddTime     == <<"A","d","d"," ","T","i","m","e">>
Check       == <<"C","h","e","c","k">>
Load        == <<"L","o","a","d">>
ContactMe   == <<"C","o","n","t","a","c","t"," ","M","e">>
SendData    == <<"S","e","n","d"," ","D","a","t","a">>
CheckStatus == <<"C","h","e","c","k"," ","S","t","a","t","u","s">>
CmdStart    == <<"/","s","t","a","r","t">>
CmdCancel   == <<"/","c","a","n","c","e","l">>
CmdMenu     == <<"/","m","e","n","u">>
Settings    == <<"GEAR"," ","S","e","t","t","i","n","g","s">>
EditProfile == <<"E","d","i","t"," ","P","r","o","f","i","l","e">>
Back        == <<"B","a","c","k">>

TaskLabels == {NewShift, NewCycle, ResetBreak, AddTime, Check, Load, ContactMe}

\* the three status literals, as texts (take_task screens the status column too)
StatusText(status) ==
    CASE status = "created"     -> <<"c","r","e","a","t","e","d">>
      [] status = "in_progress" -> <<"i","n","_","p","r","o","g","r","e","s","s">>
      [] status = "completed"   -> <<"c","o","m","p","l","e","t","e","d">>

\* ---------------------------------------------------------------- FSM, store

NONE == "NONE"

DriverStates == {"REG_COMPANY", "REG_FULL_NAME", "REG_PHONE", "REG_TRUCK",
                 "EDIT_COMPANY", "EDIT_FULL_NAME", "EDIT_PHONE", "EDIT_TRUCK",
                 "SEND_TASK_ID", "SEND_BOL", "SEND_TRAILER"}

NULL == <<>>

\* value or '' (None and '' are both falsy)
OrEmpty(col) == IF col = NULL THEN <<>> ELSE col[1]

VARIABLES
    drivers,   \* drivers table: driver_id -> NULL or <<row>>
    tasks,     \* tasks table: sequence of rows, task_id = index
    channel,   \* messages of the manager channel: [button, task_id]
    session,   \* MemoryStorage: user -> [state, data]
    pc,        \* user -> position of the user's handler in flight
    local,     \* user -> locals of that handler
    answer,    \* the last answer sent to the triggering user: [to, text]
    now        \* the clock of the store: what NOW() returns

vars == <<drivers, tasks, channel, session, pc, local, answer, now>>

\* state.get_data() of a cleared session
EmptyData == [k \in {} |-> <<>>]

\* state.update_data(key=value)
UpdateData(data, key, value) ==
    [k \in DOMAIN data \cup {key} |-> IF k = key THEN value ELSE data[k]]

NoLocal == [task_id |-> 0, message_id |-> 0, inserted |-> 0]

\* INSERT INTO tasks (driver_id, task_type): the column defaults
NewTask(driver_id, task_type) ==
    [driver_id |-> driver_id, task_type |-> task_type, status |-> "created",
     manager_id |-> NULL, bol_number |-> NULL, trailer_number |-> NULL,
     created_at |-> now, updated_at |-> now]

\* SELECT ... FROM tasks WHERE task_id = $1
FetchTask(task_id) ==
    IF task_id \in 1..Len(tasks) THEN <<tasks[task_id]>> ELSE NULL

\* UPDATE tasks SET ... WHERE task_id = $1 (no row: nothing is updated)
UpdateTask(task_id, row) ==
    IF task_id \in 1..Len(tasks) THEN [tasks EXCEPT ![task_id] = row] ELSE tasks

Answer(u, text) == answer' = [to |-> u, text |-> text]

\* the handler ends without an answer to u
NoAnswer(u) == answer' = [to |-> u, text |-> ""]


\* ------------------------------------------------------------- dispatching

\* Route with the handlers of the dialog states registered first
RouteStatesFirst(state, text) ==
    IF state = "REG_COMPANY" THEN "process_company"
    ELSE IF state = "REG_FULL_NAME" THEN "process_full_name"
    ELSE IF state = "REG_PHONE" THEN "process_phone"
    ELSE IF state = "REG_TRUCK" THEN "process_truck"
    ELSE IF state = "EDIT_COMPANY" THEN "process_edit_company"
    ELSE IF state = "EDIT_FULL_NAME" THEN "process_edit_full_name"
    ELSE IF state = "EDIT_PHONE" THEN "process_edit_phone"
    ELSE IF state = "EDIT_TRUCK" THEN "process_edit_truck"
    ELSE IF text \in TaskLabels THEN "create_task"
    ELSE IF text = SendData THEN "start_send_data"
    ELSE IF state = "SEND_TASK_ID" THEN "process_task_id"
    ELSE IF text = CmdStart THEN "cmd_start"
    ELSE IF text = CmdCancel THEN "cancel_registration"
    ELSE IF text = EditProfile THEN "edit_data"
    ELSE "handle_unknown"

\* The dispatcher calls the first registered handler whose filter accepts the
\* message: the handlers in the order of their @dp.message decorators.
Route(state, text) ==
    CASE text \in TaskLabels       -> "create_task"
      [] OTHER -> CASE text = SendData       -> "start_send_data"
      [] OTHER -> CASE state = "SEND_TASK_ID" -> "process_task_id"
      [] OTHER -> CASE state = "SEND_BOL"     -> "process_bol"
      [] OTHER -> CASE state = "SEND_TRAILER" -> "process_trailer"
      [] OTHER -> CASE text = CheckStatus     -> "check_task_status"
      [] OTHER -> CASE text = CmdStart        -> "cmd_start"
      [] OTHER -> CASE text = CmdCancel       -> "cancel_registration"
      [] OTHER -> CASE text = CmdMenu         -> "cmd_menu"
      [] OTHER -> CASE text = Settings        -> "settings"
      [] OTHER -> CASE text = EditProfile     -> "edit_data"
      [] OTHER -> CASE state = "REG_COMPANY"    -> "process_company"
      [] OTHER -> CASE state = "REG_FULL_NAME"  -> "process_full_name"
      [] OTHER -> CASE state = "REG_PHONE"      -> "process_phone"
      [] OTHER -> CASE state = "REG_TRUCK"      -> "process_truck"
      [] OTHER -> CASE state = "EDIT_COMPANY"   -> "process_edit_company"
      [] OTHER -> CASE state = "EDIT_FULL_NAME" -> "process_edit_full_name"
      [] OTHER -> CASE state = "EDIT_PHONE"     -> "process_edit_phone"
      [] OTHER -> CASE state = "EDIT_TRUCK"     -> "process_edit_truck"
      [] OTHER -> CASE text = Back              -> "back_to_main_menu"
      [] OTHER -> "handle_unknown"

\* the message `text` of user u reaches handler h (u has no update in flight)
Routed(u, text, h) ==
    /\ pc[u] = "idle"
    /\ Route(session[u].state, text) = h

SetState(u, state) == [session EXCEPT ![u].state = state]

\* state.update_data(key=value) followed by state.set_state(state)
Advance(u, key, value, state) ==
    [session EXCEPT ![u] = [state |-> state,
                            data  |-> UpdateData(session[u].data, key, value)]]

\* Clear with state.set_state(None) for state.clear(): the data stay
ClearStateOnly(u) == [session EXCEPT ![u].state = NONE]

\* state.clear()
Clear(u) == [session EXCEPT ![u] = [state |-> NONE, data |-> EmptyData]]

\* --------------------------------------------------------------- create_task

\* SELECT task_id FROM tasks ORDER BY task_id DESC LIMIT 1
LastTaskId == Len(tasks)

\* create_task up to its INSERT
create_task(u, text) ==
    /\ Routed(u, text, "create_task")
    /\ IF drivers[u] = NULL
       THEN /\ Answer(u, "Please register first!")
            /\ UNCHANGED <<drivers, tasks, channel, session, pc, local>>
       ELSE /\ Len(tasks) < MaxTasks
            /\ tasks' = Append(tasks, NewTask(u, text))
            /\ pc' = [pc EXCEPT ![u] = "create_task_notify"]
            /\ local' = [local EXCEPT ![u] = [NoLocal EXCEPT !.inserted = Len(tasks) + 1]]
            /\ UNCHANGED <<drivers, channel, session, answer>>
    /\ UNCHANGED now

\* create_task from the lookup of the id on: the notification with its
\* "Take Task" button, the answer; `sent` is whether bot.send_message succeeded
create_task_notify(u, sent) ==
    /\ pc[u] = "create_task_notify"
    /\ IF sent
       THEN /\ channel' = Append(channel, [button |-> "take", task_id |-> LastTaskId])
            /\ Answer(u, "We are working on your log book. Please wait.")
       ELSE /\ Answer(u, "An error occurred. Please try again later.")
            /\ UNCHANGED channel
    /\ pc' = [pc EXCEPT ![u] = "idle"]
    /\ local' = [local EXCEPT ![u] = NoLocal]
    /\ UNCHANGED <<drivers, tasks, session, now>>

\* ----------------------------------------------------------------- take_task

\* text_fields of take_task
TextFields(task) ==
    {task.task_type, StatusText(task.status),
     OrEmpty(task.bol_number), OrEmpty(task.trailer_number)}

\* Claimable with a check that lets a claimed task be claimed again
ClaimableUnlessCompleted(task) == task.status # "completed"

\* the claim is allowed for a row as take_task read it
Claimable(task) == task.status = "created"

\* ClaimedRow with an UPDATE that leaves manager_id out
ClaimedRowStatusOnly(task, manager_id) == [task EXCEPT !.status = "in_progress"]

\* UPDATE tasks SET status = 'in_progress', manager_id = $1 WHERE task_id = $2
ClaimedRow(task, manager_id) ==
    [task EXCEPT !.status = "in_progress", !.manager_id = <<manager_id>>]

\* take_task up to its UPDATE; the callback is the press of the button of
\* channel message i, possibly on a keyboard that has been replaced since
take_task(m, i) ==
    /\ pc[m] = "idle"
    /\ i \in 1..Len(channel)
    /\ LET task_id == channel[i].task_id
           task    == FetchTask(task_id)
       IN  IF task = NULL
           THEN /\ Answer(m, "Task not found.")
                /\ UNCHANGED <<pc, local>>
           ELSE IF \E field \in TextFields(task[1]) : IsSpam(field)
           THEN /\ Answer(m, "This task is not available.")
                /\ UNCHANGED <<pc, local>>
           ELSE IF ~Claimable(task[1])
           THEN /\ Answer(m, "Task is already taken or completed.")
                /\ UNCHANGED <<pc, local>>
           ELSE /\ pc' = [pc EXCEPT ![m] = "take_task_update"]
                /\ local' = [local EXCEPT ![m] =
                                [NoLocal EXCEPT !.task_id = task_id, !.message_id = i]]
                /\ UNCHANGED answer
    /\ UNCHANGED <<drivers, tasks, channel, session, now>>

Outcomes == {"ok", "edit_failed", "send_failed"}

\* take_task_update with the UPDATE undone when the transport fails
take_task_update_or_rollback(m, outcome) ==
    /\ pc[m] = "take_task_update"
    /\ LET task_id == local[m].task_id
       IN  tasks' = IF outcome = "ok"
                    THEN UpdateTask(task_id, ClaimedRow(tasks[task_id], m))
                    ELSE tasks
    /\ IF outcome = "edit_failed"
       THEN UNCHANGED channel
       ELSE channel' = [channel EXCEPT ![local[m].message_id].button = "finish"]
    /\ IF outcome = "ok"
       THEN Answer(m, "Task taken!")
       ELSE Answer(m, "An error occurred")
    /\ pc' = [pc EXCEPT ![m] = "idle"]
    /\ local' = [local EXCEPT ![m] = NoLocal]
    /\ UNCHANGED <<drivers, session, now>>

\* take_task from its UPDATE on; `outcome` is what the transport did with the
\* edit of the channel message and with the message to the driver
take_task_update(m, outcome) ==
    /\ pc[m] = "take_task_update"
    /\ LET task_id == local[m].task_id
       IN  tasks' = UpdateTask(task_id, ClaimedRow(tasks[task_id], m))
    /\ IF outcome = "edit_failed"
       THEN UNCHANGED channel
       ELSE channel' = [channel EXCEPT ![local[m].message_id].button = "finish"]
    /\ IF outcome = "ok"
       THEN Answer(m, "Task taken!")
       ELSE Answer(m, "An error occurred")
    /\ pc' = [pc EXCEPT ![m] = "idle"]
    /\ local' = [local EXCEPT ![m] = NoLocal]
    /\ UNCHANGED <<drivers, session, now>>

\* --------------------------------------------------------------- finish_task

\* Owns with a check that only asks for a claimed task
OwnsIfClaimed(task, manager_id) == task.manager_id # NULL

\* the ownership check of finish_task, on the row it read
Owns(task, manager_id) == task.manager_id = <<manager_id>>

\* update_task(task_id, status="completed"): SET status = $1, updated_at = NOW()
CompletedRow(task) == [task EXCEPT !.status = "completed", !.updated_at = now]

\* finish_task up to update_task; the callback is the press of the "Complete"
\* button channel message i has or had
finish_task(m, i) ==
    /\ pc[m] = "idle"
    /\ i \in 1..Len(channel)
    /\ channel[i].button \in {"finish", "none"}
    /\ LET task_id == channel[i].task_id
           task    == FetchTask(task_id)
       IN  IF task = NULL
           THEN /\ Answer(m, "An error occurred")
                /\ UNCHANGED <<pc, local>>
           ELSE IF ~Owns(task[1], m)
           THEN /\ Answer(m, "You cannot complete someone else's task")
                /\ UNCHANGED <<pc, local>>
           ELSE /\ pc' = [pc EXCEPT ![m] = "finish_task_update"]
                /\ local' = [local EXCEPT ![m] =
                                [NoLocal EXCEPT !.task_id = task_id, !.message_id = i]]
                /\ UNCHANGED answer
    /\ UNCHANGED <<drivers, tasks, channel, session, now>>

\* finish_task from update_task on
finish_task_update(m, outcome) ==
    /\ pc[m] = "finish_task_update"
    /\ LET task_id == local[m].task_id
       IN  tasks' = UpdateTask(task_id, CompletedRow(tasks[task_id]))
    /\ IF outcome = "edit_failed"
       THEN UNCHANGED channel
       ELSE channel' = [channel EXCEPT ![local[m].message_id].button = "none"]
    /\ IF outcome = "ok"
       THEN Answer(m, "Task completed!")
       ELSE Answer(m, "An error occurred")
    /\ pc' = [pc EXCEPT ![m] = "idle"]
    /\ local' = [local EXCEPT ![m] = NoLocal]
    /\ UNCHANGED <<drivers, session, now>>


\* ------------------------------------------------------ submit delivery data

\* start_send_data
start_send_data(u, text) ==
    /\ Routed(u, text, "start_send_data")
    /\ IF drivers[u] = NULL
       THEN /\ Answer(u, "Please register first!")
            /\ UNCHANGED session
       ELSE /\ Answer(u, "Enter task number:")
            /\ session' = SetState(u, "SEND_TASK_ID")
    /\ UNCHANGED <<drivers, tasks, channel, pc, local, now>>

\* FetchOwnTaskInProgress with a query that leaves driver_id out
FetchAnyTaskInProgress(task_id, driver_id) ==
    IF /\ task_id \in 1..Len(tasks)
       /\ tasks[task_id].status = "in_progress"
    THEN <<tasks[task_id]>>
    ELSE NULL

\* SELECT * FROM tasks WHERE task_id = $1 AND driver_id = $2 AND status = 'in_progress'
FetchOwnTaskInProgress(task_id, driver_id) ==
    IF /\ task_id \in 1..Len(tasks)
       /\ tasks[task_id].driver_id = driver_id
       /\ tasks[task_id].status = "in_progress"
    THEN <<tasks[task_id]>>
    ELSE NULL

\* process_task_id (step 1)
process_task_id(u, text) ==
    /\ Routed(u, text, "process_task_id")
    /\ LET task_id_str == Strip(text)
       IN  IF ~IsDigit(task_id_str)
           THEN /\ Answer(u, "Task number must be a number. Please try again.")
                /\ UNCHANGED session
           ELSE IF ToInt(task_id_str) < 0
           THEN \* the store driver refuses the argument; nothing catches it
                /\ NoAnswer(u)
                /\ UNCHANGED session
           ELSE IF FetchOwnTaskInProgress(ToInt(task_id_str), u) = NULL
           THEN /\ Answer(u, "Task not found or not assigned to you.")
                /\ UNCHANGED session
           ELSE /\ Answer(u, "Enter BOL number:")
                /\ session' = Advance(u, "task_id", ToInt(task_id_str), "SEND_BOL")
    /\ UNCHANGED <<drivers, tasks, channel, pc, local, now>>

\* process_bol (step 2)
process_bol(u, text) ==
    /\ Routed(u, text, "process_bol")
    /\ LET bol == Strip(text)
       IN  IF ~BOL_PATTERN(bol)
           THEN /\ Answer(u, "Invalid BOL format (must be 8-12 digits). Please try again.")
                /\ UNCHANGED session
           ELSE /\ Answer(u, "Enter trailer number:")
                /\ session' = Advance(u, "bol", bol, "SEND_TRAILER")
    /\ UNCHANGED <<drivers, tasks, channel, pc, local, now>>

\* DeliveryRow with an update that leaves trailer_number out
DeliveryRowBolOnly(task, bol, trailer) ==
    [task EXCEPT !.bol_number = <<bol>>, !.updated_at = now]

\* update_task(task_id, bol_number=bol, trailer_number=trailer):
\* SET bol_number = $1, trailer_number = $2, updated_at = NOW()
DeliveryRow(task, bol, trailer) ==
    [task EXCEPT !.bol_number = <<bol>>, !.trailer_number = <<trailer>>,
                 !.updated_at = now]

\* process_trailer without the content filter
process_trailer_unfiltered(u, text, sent) ==
    /\ Routed(u, text, "process_trailer")
    /\ LET data    == session[u].data
           trailer == Strip(text)
       IN  IF ~({"task_id", "bol"} \subseteq DOMAIN data)
           THEN /\ Answer(u, "An error occurred. Please try again later.")
                /\ UNCHANGED <<tasks, session>>
           ELSE /\ tasks' = UpdateTask(data["task_id"],
                                DeliveryRow(tasks[data["task_id"]], data["bol"], trailer))
                /\ session' = Clear(u)
                /\ IF sent
                   THEN Answer(u, "Data sent to manager!")
                   ELSE Answer(u, "An error occurred. Please try again later.")
    /\ UNCHANGED <<drivers, channel, pc, local, now>>

\* process_trailer (step 3); `sent` is whether the answers after the update
\* were delivered
process_trailer(u, text, sent) ==
    /\ Routed(u, text, "process_trailer")
    /\ LET data    == session[u].data
           trailer == Strip(text)
       IN  IF ~({"task_id", "bol"} \subseteq DOMAIN data)
           THEN /\ Answer(u, "An error occurred. Please try again later.")
                /\ UNCHANGED <<tasks, session>>
           ELSE IF IsSpam(trailer)
           THEN /\ Answer(u, "Invalid trailer number. Please try again.")
                /\ UNCHANGED <<tasks, session>>
           ELSE /\ tasks' = UpdateTask(data["task_id"],
                                DeliveryRow(tasks[data["task_id"]], data["bol"], trailer))
                /\ session' = Clear(u)
                /\ IF sent
                   THEN Answer(u, "Data sent to manager!")
                   ELSE Answer(u, "An error occurred. Please try again later.")
    /\ UNCHANGED <<drivers, channel, pc, local, now>>

\* check_task_status
check_task_status(u, text) ==
    /\ Routed(u, text, "check_task_status")
    /\ IF \E i \in 1..Len(tasks) : tasks[i].driver_id = u
       THEN Answer(u, "Task:")
       ELSE Answer(u, "You have no active tasks.")
    /\ UNCHANGED <<drivers, tasks, channel, session, pc, local, now>>

\* ------------------------------------------------------- commands and menus

\* cmd_start
cmd_start(u, text) ==
    /\ Routed(u, text, "cmd_start")
    /\ IF session[u].state # NONE
       THEN /\ Answer(u, "Please complete the current action or type /cancel")
            /\ UNCHANGED session
       ELSE IF drivers[u] # NULL
       THEN /\ Answer(u, "Welcome back!")
            /\ UNCHANGED session
       ELSE /\ Answer(u, "Registration: Enter company name:")
            /\ session' = SetState(u, "REG_COMPANY")
    /\ UNCHANGED <<drivers, tasks, channel, pc, local, now>>

\* cancel_registration
cancel_registration(u, text) ==
    /\ Routed(u, text, "cancel_registration")
    /\ IF session[u].state # NONE
       THEN /\ session' = Clear(u)
            /\ Answer(u, "Action cancelled")
       ELSE /\ Answer(u, "No active actions")
            /\ UNCHANGED session
    /\ UNCHANGED <<drivers, tasks, channel, pc, local, now>>

\* cmd_menu
cmd_menu(u, text) ==
    /\ Routed(u, text, "cmd_menu")
    /\ Answer(u, "Main menu")
    /\ UNCHANGED <<drivers, tasks, channel, session, pc, local, now>>

\* settings
settings(u, text) ==
    /\ Routed(u, text, "settings")
    /\ IF drivers[u] = NULL
       THEN Answer(u, "Please register first!")
       ELSE Answer(u, "Select an action:")
    /\ UNCHANGED <<drivers, tasks, channel, session, pc, local, now>>

\* edit_data
edit_data(u, text) ==
    /\ Routed(u, text, "edit_data")
    /\ Answer(u, "Enter new company name:")
    /\ session' = SetState(u, "EDIT_COMPANY")
    /\ UNCHANGED <<drivers, tasks, channel, pc, local, now>>

\* back_to_main_menu
back_to_main_menu(u, text) ==
    /\ Routed(u, text, "back_to_main_menu")
    /\ Answer(u, "Main menu")
    /\ UNCHANGED <<drivers, tasks, channel, session, pc, local, now>>

\* handle_unknown: a message with a denylisted token is dropped without an answer
handle_unknown(u, text) ==
    /\ Routed(u, text, "handle_unknown")
    /\ IF IsSpam(text)
       THEN NoAnswer(u)
       ELSE Answer(u, "Please use the menu to select an action.")
    /\ UNCHANGED <<drivers, tasks, channel, session, pc, local, now>>

\* ------------------------------------------------- registration, edit profile

\* a step that stores a non-empty field and advances
FieldStep(u, text, key, next, empty, prompt) ==
    LET value == Strip(text)
    IN  IF value = <<>>
        THEN /\ Answer(u, empty)
             /\ UNCHANGED session
        ELSE /\ Answer(u, prompt)
             /\ session' = Advance(u, key, value, next)

\* a step that stores a phone number and advances
PhoneStep(u, text, next, prompt) ==
    LET phone == Strip(text)
    IN  IF ~PHONE_PATTERN(phone)
        THEN /\ Answer(u, "Invalid phone format. Example: +71234567890")
             /\ UNCHANGED session
        ELSE /\ Answer(u, prompt)
             /\ session' = Advance(u, "phone", phone, next)

\* process_company
process_company(u, text) ==
    /\ Routed(u, text, "process_company")
    /\ FieldStep(u, text, "company", "REG_FULL_NAME",
                 "Company name cannot be empty.", "Enter your full name:")
    /\ UNCHANGED <<drivers, tasks, channel, pc, local, now>>

\* process_full_name
process_full_name(u, text) ==
    /\ Routed(u, text, "process_full_name")
    /\ FieldStep(u, text, "full_name", "REG_PHONE",
                 "Full name cannot be empty.", "Enter phone number (e.g., +71234567890):")
    /\ UNCHANGED <<drivers, tasks, channel, pc, local, now>>

\* process_phone
process_phone(u, text) ==
    /\ Routed(u, text, "process_phone")
    /\ PhoneStep(u, text, "REG_TRUCK", "Enter truck number:")
    /\ UNCHANGED <<drivers, tasks, channel, pc, local, now>>

\* the row of the drivers table a terminal step writes
DriverRow(data, truck_number) ==
    [company |-> data["company"], full_name |-> data["full_name"],
     phone |-> data["phone"], truck_number |-> truck_number]

\* process_truck; `sent` is whether the confirmation was delivered
process_truck(u, text, sent) ==
    /\ Routed(u, text, "process_truck")
    /\ LET data         == session[u].data
           truck_number == Strip(text)
       IN  IF truck_number = <<>>
           THEN /\ Answer(u, "Truck number cannot be empty.")
                /\ UNCHANGED <<drivers, session>>
           ELSE IF \/ ~({"company", "full_name", "phone"} \subseteq DOMAIN data)
                   \/ drivers[u] # NULL
           THEN \* KeyError, or the UNIQUE constraint on driver_id
                /\ Answer(u, "An error occurred. Please try again later.")
                /\ UNCHANGED <<drivers, session>>
           ELSE /\ drivers' = [drivers EXCEPT ![u] = <<DriverRow(data, truck_number)>>]
                /\ IF sent
                   THEN /\ Answer(u, "Registration completed!")
                        /\ session' = Clear(u)
                   ELSE /\ Answer(u, "An error occurred. Please try again later.")
                        /\ UNCHANGED session
    /\ UNCHANGED <<tasks, channel, pc, local, now>>

\* process_edit_company
process_edit_company(u, text) ==
    /\ Routed(u, text, "process_edit_company")
    /\ FieldStep(u, text, "company", "EDIT_FULL_NAME",
                 "Company name cannot be empty.", "Enter new full name:")
    /\ UNCHANGED <<drivers, tasks, channel, pc, local, now>>

\* process_edit_full_name
process_edit_full_name(u, text) ==
    /\ Routed(u, text, "process_edit_full_name")
    /\ FieldStep(u, text, "full_name", "EDIT_PHONE",
                 "Full name cannot be empty.", "Enter new phone number:")
    /\ UNCHANGED <<drivers, tasks, channel, pc, local, now>>

\* process_edit_phone
process_edit_phone(u, text) ==
    /\ Routed(u, text, "process_edit_phone")
    /\ PhoneStep(u, text, "EDIT_TRUCK", "Enter new truck number:")
    /\ UNCHANGED <<drivers, tasks, channel, pc, local, now>>

\* process_edit_truck; `sent` is whether the confirmation was delivered
process_edit_truck(u, text, sent) ==
    /\ Routed(u, text, "process_edit_truck")
    /\ LET data         == session[u].data
           truck_number == Strip(text)
       IN  IF truck_number = <<>>
           THEN /\ Answer(u, "Truck number cannot be empty.")
                /\ UNCHANGED <<drivers, session>>
           ELSE IF ~({"company", "full_name", "phone"} \subseteq DOMAIN data)
           THEN /\ Answer(u, "An error occurred. Please try again later.")
                /\ UNCHANGED <<drivers, session>>
           ELSE \* UPDATE drivers ... WHERE driver_id = $5: no row, no change
                /\ drivers' = IF drivers[u] = NULL THEN drivers
                              ELSE [drivers EXCEPT ![u] = <<DriverRow(data, truck_number)>>]
                /\ IF sent
                   THEN /\ Answer(u, "Profile updated!")
                        /\ session' = Clear(u)
                   ELSE /\ Answer(u, "An error occurred. Please try again later.")
                        /\ UNCHANGED session
    /\ UNCHANGED <<tasks, channel, pc, local, now>>


\* ------------------------------------------------------------------ updates

\* one message `text` of user u: the dispatcher calls the one handler it routes to
Message(u, text) ==
    \/ create_task(u, text)
    \/ start_send_data(u, text)
    \/ process_task_id(u, text)
    \/ process_bol(u, text)
    \/ \E sent \in BOOLEAN : process_trailer(u, text, sent)
    \/ check_task_status(u, text)
    \/ cmd_start(u, text)
    \/ cancel_registration(u, text)
    \/ cmd_menu(u, text)
    \/ settings(u, text)
    \/ edit_data(u, text)
    \/ process_company(u, text)
    \/ process_full_name(u, text)
    \/ process_phone(u, text)
    \/ \E sent \in BOOLEAN : process_truck(u, text, sent)
    \/ process_edit_company(u, text)
    \/ process_edit_full_name(u, text)
    \/ process_edit_phone(u, text)
    \/ \E sent \in BOOLEAN : process_edit_truck(u, text, sent)
    \/ back_to_main_menu(u, text)
    \/ handle_unknown(u, text)

\* the task requests of the drivers D, with the labels T
Creation(D, T) ==
    \/ \E u \in D, text \in T : create_task(u, text)
    \/ \E u \in D, sent \in BOOLEAN : create_task_notify(u, sent)

\* the submit-data dialog of the drivers D, with the messages T
Submit(D, T) ==
    \/ \E u \in D, text \in T : start_send_data(u, text)
    \/ \E u \in D, text \in T : process_task_id(u, text)
    \/ \E u \in D, text \in T : process_bol(u, text)
    \/ \E u \in D, text \in T, sent \in BOOLEAN : process_trailer(u, text, sent)

\* the dialogs of user u with the messages T (no task labels): every handler a
\* message of T can be routed to
Session(u, T) ==
    \/ \E text \in T : start_send_data(u, text)
    \/ \E text \in T : process_task_id(u, text)
    \/ \E text \in T : process_bol(u, text)
    \/ \E text \in T, sent \in BOOLEAN : process_trailer(u, text, sent)
    \/ \E text \in T : cmd_start(u, text)
    \/ \E text \in T : cancel_registration(u, text)
    \/ \E text \in T : edit_data(u, text)
    \/ \E text \in T : process_company(u, text)
    \/ \E text \in T : process_full_name(u, text)
    \/ \E text \in T : process_phone(u, text)
    \/ \E text \in T, sent \in BOOLEAN : process_truck(u, text, sent)
    \/ \E text \in T : process_edit_company(u, text)
    \/ \E text \in T : process_edit_full_name(u, text)
    \/ \E text \in T : process_edit_phone(u, text)
    \/ \E text \in T, sent \in BOOLEAN : process_edit_truck(u, text, sent)
    \/ \E text \in T : handle_unknown(u, text)

\* time passes between two statements of the store
Tick ==
    /\ now < MaxTime
    /\ now' = now + 1
    /\ UNCHANGED <<drivers, tasks, channel, session, pc, local, answer>>

\* the button presses of the managers M
Callbacks(M) ==
    \/ \E m \in M, i \in 1..MaxTasks : take_task(m, i)
    \/ \E m \in M, outcome \in Outcomes : take_task_update(m, outcome)
    \/ \E m \in M, i \in 1..MaxTasks : finish_task(m, i)
    \/ \E m \in M, outcome \in Outcomes : finish_task_update(m, outcome)

\* -------------------------------------------------------------------- inputs

FreeText   == <<"T","-","1">>
SpamText   == <<"x","V","p","n">>
PhoneText  == <<"+","1","2","3","4","5","6","7","8","9","0","1">>
BolText    == <<"1","2","3","4","5","6","7","8">>
TaskIdText == <<"1">>
TaskId2Text == <<"2">>
\* eleven digits: a phone number and a BOL number
DigitsText  == <<"1","2","3","4","5","6","7","8","9","0","1">>

\* a row of the drivers table as a completed registration leaves it
RegisteredRow ==
    [company |-> FreeText, full_name |-> FreeText,
     phone |-> PhoneText, truck_number |-> FreeText]

\* the messages of the submit-data dialog: the task id also serves as a malformed
\* BOL, the BOL as the id of no task, and each of them as a trailer number
SubmitTexts == {SendData, TaskIdText, BolText, FreeText}

\* the messages of the submit-data dialog with a trailer the filter refuses
CleanTexts == {SendData, TaskIdText, BolText, FreeText, SpamText}

\* the messages of the submit-data dialog of a driver beside another driver's tasks
OwnerTexts == {SendData, TaskIdText, TaskId2Text, BolText, FreeText}

\* candidate phone numbers around the limits of PHONE_PATTERN
Phone9       == <<"1","2","3","4","5","6","7","8","9">>
Phone10      == Phone9 \o <<"0">>
Phone15      == Phone10 \o <<"1","2","3","4","5">>
Phone16      == Phone15 \o <<"6">>
PhonePlus9   == <<"+">> \o Phone9
PhonePlus15  == <<"+">> \o Phone15
PhonePlus16  == <<"+">> \o Phone16
PhoneZero    == <<"0">> \o Phone9
PhoneLetter  == Phone9 \o <<"x">>
PhoneTwoPlus == <<"+","+">> \o Phone10
PhonePadded  == <<" ">> \o Phone10 \o <<"\n">>
PhoneInner   == <<"1"," ">> \o Phone9
PhoneArabic  == Phone9 \o <<"ARABIC_1">>
PhoneArabic1 == <<"ARABIC_1">> \o Phone9

PhoneInputs == {PhoneText, Phone9, Phone10, Phone15, Phone16, PhonePlus9,
                PhonePlus15, PhonePlus16, PhoneZero, PhoneLetter, PhoneTwoPlus,
                PhonePadded, PhoneInner, PhoneArabic, PhoneArabic1}

\* the messages sent at a phone step: the candidates, a free text, and menu
\* labels and commands
PhoneStepTexts == PhoneInputs \cup {FreeText, Check, CmdStart, CmdCancel, EditProfile}

\* the other messages of the registration and edit dialogs of SpecPhone
PhoneDialogTexts == {FreeText, Check, CmdStart, CmdCancel, EditProfile}

\* the messages of a user who moves through and between the three dialogs; the
\* free texts are a task id, a phone or BOL number and a text with a denylisted
\* token, each of them also a company, a name, a truck or a trailer number
SessionTexts == {SendData, CmdStart, CmdCancel, EditProfile,
                 SpamText, DigitsText, TaskIdText}

\* the messages of the registration and edit dialogs
DialogTexts == TaskLabels \cup {CmdStart, CmdCancel, EditProfile, SendData, PhoneText}

\* ------------------------------------------------------------ specifications

\* The process has just started: the in-memory sessions are empty and no update
\* is in flight; the store holds what earlier runs left in it, here the rows of
\* the drivers in `registered`.
InitWith(registered) ==
    /\ drivers = [u \in Drivers |-> IF u \in registered THEN <<RegisteredRow>> ELSE NULL]
    /\ tasks = <<>>
    /\ channel = <<>>
    /\ session = [u \in Drivers |-> [state |-> NONE, data |-> EmptyData]]
    /\ pc = [u \in Users |-> "idle"]
    /\ local = [u \in Users |-> NoLocal]
    /\ answer = [to |-> "", text |-> ""]
    /\ now = 0

\* one registered driver, two managers: requests, claims, completions
Init == InitWith({"d1"})

Next == Creation({"d1"}, {Check}) \/ Callbacks(Managers)

Spec == Init /\ [][Next]_vars

\* two registered drivers whose requests interleave, one manager
InitCreate == InitWith(Drivers)

NextCreate == Creation(Drivers, {Check, Load}) \/ Callbacks({"m1"})

SpecCreate == InitCreate /\ [][NextCreate]_vars

\* one registered driver with the submit-data dialog, one manager
NextSubmit ==
    \/ Creation({"d1"}, {Check})
    \/ Submit({"d1"}, SubmitTexts)
    \/ Callbacks({"m1"})

SpecSubmit == Init /\ [][NextSubmit]_vars

\* one registered driver with the submit-data dialog and trailers with and
\* without a denylisted token, one manager who also presses buttons again
NextClean ==
    \/ Creation({"d1"}, {Check})
    \/ Submit({"d1"}, CleanTexts)
    \/ Callbacks({"m1"})

SpecClean == Init /\ [][NextClean]_vars

\* one registered driver, one manager, and the clock of the store
NextClock ==
    \/ Creation({"d1"}, {Check})
    \/ Callbacks({"m1"})
    \/ Tick

SpecClock == Init /\ [][NextClock]_vars

\* The store of an earlier run: both drivers registered, task 1 requested by d2
\* and claimed by m1, its channel message with the "Complete" button.
InitOwner ==
    /\ now = 0
    /\ drivers = [u \in Drivers |-> <<RegisteredRow>>]
    /\ tasks = <<ClaimedRow(NewTask("d2", Check), "m1")>>
    /\ channel = <<[button |-> "finish", task_id |-> 1]>>
    /\ session = [u \in Drivers |-> [state |-> NONE, data |-> EmptyData]]
    /\ pc = [u \in Users |-> "idle"]
    /\ local = [u \in Users |-> NoLocal]
    /\ answer = [to |-> "", text |-> ""]

\* driver d1 with requests and the submit-data dialog, where it can name the
\* task of d2, one manager
NextOwner ==
    \/ Creation({"d1"}, {Check})
    \/ Submit({"d1"}, OwnerTexts)
    \/ Callbacks({"m1"})

SpecOwner == InitOwner /\ [][NextOwner]_vars

\* The store of an earlier run: d1 registered, task 1 requested by d1 and
\* claimed by m1, its channel message with the "Complete" button.
InitClaimed ==
    /\ now = 0
    /\ drivers = [u \in Drivers |-> IF u = "d1" THEN <<RegisteredRow>> ELSE NULL]
    /\ tasks = <<ClaimedRow(NewTask("d1", Check), "m1")>>
    /\ channel = <<[button |-> "finish", task_id |-> 1]>>
    /\ session = [u \in Drivers |-> [state |-> NONE, data |-> EmptyData]]
    /\ pc = [u \in Users |-> "idle"]
    /\ local = [u \in Users |-> NoLocal]
    /\ answer = [to |-> "", text |-> ""]

\* one user with all three dialogs: not registered at the start, or registered
\* with a claimed task
InitSession == InitWith({}) \/ InitClaimed

NextSession == Session("d1", SessionTexts)

SpecSession == InitSession /\ [][NextSession]_vars

\* one user, not registered at the start, with the registration and edit dialogs
\* and the entry of the submit-data dialog
InitDialog == InitWith({})

NextDialog ==
    \/ \E text \in DialogTexts : create_task("d1", text)
    \/ \E sent \in BOOLEAN : create_task_notify("d1", sent)
    \/ \E text \in DialogTexts : start_send_data("d1", text)
    \/ \E text \in DialogTexts : process_task_id("d1", text)
    \/ \E text \in DialogTexts : cmd_start("d1", text)
    \/ \E text \in DialogTexts : cancel_registration("d1", text)
    \/ \E text \in DialogTexts : edit_data("d1", text)
    \/ \E text \in DialogTexts : process_company("d1", text)
    \/ \E text \in DialogTexts : process_full_name("d1", text)
    \/ \E text \in DialogTexts : process_phone("d1", text)
    \/ \E text \in DialogTexts, sent \in BOOLEAN : process_truck("d1", text, sent)
    \/ \E text \in DialogTexts : process_edit_company("d1", text)
    \/ \E text \in DialogTexts : process_edit_full_name("d1", text)
    \/ \E text \in DialogTexts : process_edit_phone("d1", text)
    \/ \E text \in DialogTexts, sent \in BOOLEAN : process_edit_truck("d1", text, sent)

SpecDialog == InitDialog /\ [][NextDialog]_vars

\* one user, not registered at the start, who tries the phone candidates at the
\* phone steps of the registration and edit dialogs
NextPhone ==
    \/ \E text \in PhoneDialogTexts : create_task("d1", text)
    \/ \E text \in PhoneDialogTexts : cmd_start("d1", text)
    \/ \E text \in PhoneDialogTexts : cancel_registration("d1", text)
    \/ \E text \in PhoneDialogTexts : edit_data("d1", text)
    \/ \E text \in PhoneDialogTexts : process_company("d1", text)
    \/ \E text \in PhoneDialogTexts : process_full_name("d1", text)
    \/ \E text \in PhoneInputs : process_phone("d1", text)
    \/ \E text \in PhoneDialogTexts, sent \in BOOLEAN : process_truck("d1", text, sent)
    \/ \E text \in PhoneDialogTexts : process_edit_company("d1", text)
    \/ \E text \in PhoneDialogTexts : process_edit_full_name("d1", text)
    \/ \E text \in PhoneInputs : process_edit_phone("d1", text)
    \/ \E text \in PhoneDialogTexts, sent \in BOOLEAN : process_edit_truck("d1", text, sent)
    \/ \E text \in PhoneDialogTexts : handle_unknown("d1", text)

SpecPhone == InitDialog /\ [][NextPhone]_vars

\* -------------------------------------------------------------------- claims

StatusRank(status) ==
    CASE status = "created" -> 0 [] status = "in_progress" -> 1 [] status = "completed" -> 2

\* manager m ends a take_task that has passed the status check: its UPDATE
TakeUpdateBy(m) == pc[m] = "take_task_update" /\ pc'[m] = "idle"

\* the BOL or the trailer of task t changes
DeliveryChanged(t) ==
    \/ tasks'[t].bol_number # tasks[t].bol_number
    \/ tasks'[t].trailer_number # tasks[t].trailer_number

\* C1: a claim is exactly-once under concurrency: of the interleaved take_task
\* callbacks of several managers for one `created` task exactly one succeeds,
\* so whenever a take_task performs its UPDATE the task is still `created` and
\* unclaimed; every other attempt is rejected and writes nothing.
C1_ClaimExactlyOnce ==
    [][\A m \in Managers :
          TakeUpdateBy(m) =>
              /\ tasks[local[m].task_id].status = "created"
              /\ tasks[local[m].task_id].manager_id = NULL]_vars

\* C2: the status of a task only moves along created, in_progress, completed:
\* a step leaves it or advances it by one, never back and never from created
\* straight to completed.
C2_StatusMonotonic ==
    [][\A t \in 1..Len(tasks) :
          \/ StatusRank(tasks'[t].status) = StatusRank(tasks[t].status)
          \/ StatusRank(tasks'[t].status) = StatusRank(tasks[t].status) + 1]_vars

\* C3: finish_task on a task it reads as `in_progress` goes on to complete it
\* exactly when the invoker is the manager stored in that row, and its update
\* changes the status to `completed` (with the updated-at) and nothing else;
\* every other invoker gets the ownership rejection and the tasks table is left as it was.
C3_CompleteOnlyByOwner ==
    [][/\ \A m \in Managers, i \in 1..MaxTasks :
            (finish_task(m, i) /\ tasks[channel[i].task_id].status = "in_progress") =>
                IF tasks[channel[i].task_id].manager_id = <<m>>
                THEN /\ pc'[m] = "finish_task_update"
                     /\ local'[m].task_id = channel[i].task_id
                ELSE /\ answer' = [to |-> m, text |-> "You cannot complete someone else's task"]
                     /\ tasks' = tasks
                     /\ pc'[m] = "idle"
       /\ \A m \in Managers :
            (pc[m] = "finish_task_update" /\ pc'[m] = "idle") =>
                tasks' = [tasks EXCEPT ![local[m].task_id].status = "completed",
                                       ![local[m].task_id].updated_at = now]]_vars

\* C3 witness: m2 has been rejected on the in_progress task of m1 while m1,
\* having passed the ownership check, is about to complete it
C3_Witness ==
    /\ answer = [to |-> "m2", text |-> "You cannot complete someone else's task"]
    /\ pc["m1"] = "finish_task_update"
    /\ tasks[local["m1"].task_id].status = "in_progress"
    /\ tasks[local["m1"].task_id].manager_id = <<"m1">>

\* the dialog states of the submit-data dialog
SendStates == {"SEND_TASK_ID", "SEND_BOL", "SEND_TRAILER"}

\* C4: a task label sent by a user without a Driver record, in whatever dialog
\* state the session is, is answered 'Please register first!'; no task row is
\* inserted, nothing is sent to the manager channel, the session stays as it
\* was.  (A user without a Driver record is never in a submit-data state.)
C4_UnregisteredRejected ==
    /\ [](\A u \in Drivers : drivers[u] = NULL => session[u].state \notin SendStates)
    /\ [][\A u \in Drivers, text \in TaskLabels :
            (Message(u, text) /\ drivers[u] = NULL) =>
                /\ answer' = [to |-> u, text |-> "Please register first!"]
                /\ tasks' = tasks
                /\ channel' = channel
                /\ session' = session
                /\ pc' = pc]_vars

\* C4 witness: the rejection has been given in the middle of a dialog
C4_Witness ==
    /\ drivers["d1"] = NULL
    /\ session["d1"].state = "REG_PHONE"
    /\ answer = [to |-> "d1", text |-> "Please register first!"]
    /\ tasks = <<>>
    /\ channel = <<>>

\* C5: a take_task on a task that is already in_progress or completed is
\* rejected with 'Task is already taken or completed.' and writes nothing.
C5_StaleClaimRejected ==
    [][\A m \in Managers, i \in 1..MaxTasks :
          (/\ i <= Len(channel)
           /\ tasks[channel[i].task_id].status # "created"
           /\ take_task(m, i)) =>
              /\ answer' = [to |-> m, text |-> "Task is already taken or completed."]
              /\ tasks' = tasks
              /\ pc'[m] = "idle"]_vars

\* C5 witness: m2 has been rejected on a task m1 has claimed, no claim in flight
C5_Witness ==
    /\ answer = [to |-> "m2", text |-> "Task is already taken or completed."]
    /\ \A m \in Managers : pc[m] = "idle"
    /\ \E t \in 1..Len(tasks) :
          tasks[t].status = "in_progress" /\ tasks[t].manager_id = <<"m1">>

\* C6: in every reachable state the manager id of a task is null exactly when
\* its status is `created`.
C6_ManagerNullIffCreated ==
    \A t \in 1..Len(tasks) :
        (tasks[t].manager_id = NULL) <=> (tasks[t].status = "created")

\* C6 witness: a completed task keeps its manager beside a task not yet claimed,
\* while a second claim is in flight
C6_Witness ==
    /\ \E t \in 1..Len(tasks) :
          tasks[t].status = "completed" /\ tasks[t].manager_id # NULL
    /\ \E t \in 1..Len(tasks) :
          tasks[t].status = "created" /\ tasks[t].manager_id = NULL
    /\ \E m \in Managers : pc[m] = "take_task_update"

\* C7: the 'Take Task' button of the notification a create_task call sends
\* carries the id of the row that call inserted.
C7_ButtonCarriesInsertedId ==
    [][\A u \in Drivers :
          (/\ pc[u] = "create_task_notify"
           /\ pc'[u] = "idle"
           /\ Len(channel') = Len(channel) + 1) =>
              channel'[Len(channel')].task_id = local[u].inserted]_vars

\* C8: BOL and trailer are persisted together: every task has both null or
\* both set, and a step changes them only as the one combined update of the
\* step-3 handler, which ends a session at the trailer step.
C8_BolTrailerTogether ==
    /\ [](\A t \in 1..Len(tasks) :
            (tasks[t].bol_number = NULL) <=> (tasks[t].trailer_number = NULL))
    /\ [][\A t \in 1..Len(tasks) :
            DeliveryChanged(t) =>
                /\ \E u \in Drivers :
                      /\ session[u].state = "SEND_TRAILER"
                      /\ session'[u].state = NONE
                      /\ session[u].data["task_id"] = t
                      /\ tasks'[t].bol_number = <<session[u].data["bol"]>>
                /\ tasks'[t].trailer_number # NULL]_vars

\* C8 witness: step 3 has written the BOL of step 2 and its own trailer to a
\* task and has cleared the session
C8_Witness ==
    /\ answer = [to |-> "d1", text |-> "Data sent to manager!"]
    /\ session["d1"] = [state |-> NONE, data |-> EmptyData]
    /\ \E t \in 1..Len(tasks) :
          /\ tasks[t].bol_number = <<BolText>>
          /\ tasks[t].trailer_number = <<FreeText>>

\* C9: BOL and trailer of a task are set only once: once non-null they never
\* change.
C9_DeliverySetOnce ==
    [][\A t \in 1..Len(tasks) :
          tasks[t].bol_number # NULL => ~DeliveryChanged(t)]_vars

\* C10: BOL and trailer are written only while the task is `in_progress`.
C10_DeliveryOnlyInProgress ==
    [][\A t \in 1..Len(tasks) :
          DeliveryChanged(t) => tasks[t].status = "in_progress"]_vars

\* a step-1 input that is not the number of an in_progress task of driver u
NotOwnTaskInProgress(u, text) ==
    LET s == Strip(text)
    IN  \/ ~IsDigit(s)
        \/ ToInt(s) \notin 1..Len(tasks)
        \/ tasks[ToInt(s)].driver_id # u
        \/ tasks[ToInt(s)].status # "in_progress"

\* C11: BOL and trailer of a task are written only by the owning driver: when
\* process_trailer of user u reaches its update, the task it updates has
\* driver id u; a message at step 1 that is non-numeric or names a task that is
\* missing, of another driver or not in_progress leaves the session of u as it
\* was: at step 1, no task id captured.
C11_DeliveryByOwner ==
    [][/\ \A u \in Drivers, text \in OwnerTexts, sent \in BOOLEAN :
            (process_trailer(u, text, sent) /\ session'[u].state = NONE) =>
                /\ tasks[session[u].data["task_id"]].driver_id = u
                /\ \A t \in 1..Len(tasks) : tasks'[t] # tasks[t] => tasks[t].driver_id = u
       /\ \A u \in Drivers, text \in OwnerTexts :
            (/\ session[u].state = "SEND_TASK_ID"
             /\ NotOwnTaskInProgress(u, text)
             /\ Message(u, text)) =>
                session'[u] = session[u]]_vars

\* C11 witness: d1 has submitted the data of its own task and has then been
\* refused, at step 1, the in_progress task of d2
C11_Witness ==
    /\ \E t \in 1..Len(tasks) :
          tasks[t].driver_id = "d1" /\ tasks[t].trailer_number # NULL
    /\ tasks[1].driver_id = "d2"
    /\ tasks[1].status = "in_progress"
    /\ tasks[1].bol_number = NULL
    /\ session["d1"].state = "SEND_TASK_ID"
    /\ "task_id" \notin DOMAIN session["d1"].data
    /\ answer = [to |-> "d1", text |-> "Task not found or not assigned to you."]

\* the dialog states
ActiveStates == DriverStates

\* C12: /cancel in every active session state (each registration, edit and
\* submit-data step) clears the session and answers with the default menu
\* without a store write; with no active session it changes nothing and answers
\* that there is nothing to cancel.
C12_CancelClears ==
    [][\A u \in Drivers :
          Message(u, CmdCancel) =>
              /\ drivers' = drivers
              /\ tasks' = tasks
              /\ IF session[u].state \in ActiveStates
                 THEN /\ session'[u] = [state |-> NONE, data |-> EmptyData]
                      /\ answer' = [to |-> u, text |-> "Action cancelled"]
                 ELSE /\ session'[u] = session[u]
                      /\ answer' = [to |-> u, text |-> "No active actions"]]_vars

\* C13: /start in every active session state starts no second dialog: the step,
\* the accumulator and the store stay as they were and the user is prompted to
\* complete the current action or cancel it.
C13_StartRefused ==
    [][\A u \in Drivers :
          (Message(u, CmdStart) /\ session[u].state \in ActiveStates) =>
              /\ session'[u] = session[u]
              /\ drivers' = drivers
              /\ tasks' = tasks
              /\ answer' = [to |-> u,
                            text |-> "Please complete the current action or type /cancel"]]_vars

\* the steps of the edit-profile dialog
EditStates == {"EDIT_COMPANY", "EDIT_FULL_NAME", "EDIT_PHONE", "EDIT_TRUCK"}

\* C14: the edit-profile dialog is entered only by a user with a Driver record:
\* an 'Edit Profile' message of a user without one does not put that user's
\* session into an edit step.
C14_EditNeedsDriver ==
    [][\A u \in Drivers :
          (Message(u, EditProfile) /\ drivers[u] = NULL) =>
              session'[u].state \notin EditStates]_vars

\* the phone pattern as the claim words it: an optional '+', then 10 to 15
\* digits of which the first is 1-9
E164Like(s) ==
    \E plus \in {0, 1} :
        /\ Len(s) - plus \in 10..15
        /\ plus = 1 => s[1] = "+"
        /\ s[plus + 1] \in {"1", "2", "3", "4", "5", "6", "7", "8", "9"}
        /\ \A i \in (plus + 2)..Len(s) : s[i] \in DecimalDigits

\* what a message at REG_PHONE does according to the claim
PhoneStepOutcome(u, text) ==
    IF E164Like(Strip(text))
    THEN session'[u] = [state |-> "REG_TRUCK",
                        data  |-> UpdateData(session[u].data, "phone", Strip(text))]
    ELSE /\ session'[u] = session[u]
         /\ drivers' = drivers
         /\ tasks' = tasks
         /\ answer' = [to |-> u, text |-> "Invalid phone format. Example: +71234567890"]

\* C15 as claimed: at REG_PHONE every input that matches the phone pattern
\* stores the phone and advances to the truck step, and every input that does
\* not match re-prompts and leaves session, accumulator and store unchanged.
C15_PhoneStepEveryInput ==
    [][\A u \in Drivers, text \in PhoneStepTexts :
          (session[u].state = "REG_PHONE" /\ Message(u, text)) =>
              PhoneStepOutcome(u, text)]_vars

\* the texts the handlers registered before process_phone take in every state
MenuTexts == TaskLabels \cup {SendData, CheckStatus, CmdStart, CmdCancel,
                              CmdMenu, Settings, EditProfile}

\* C15 as amended: the same, for every input that is not one of the menu
\* labels and commands handled before the dialog steps.
C15_PhoneStep ==
    [][\A u \in Drivers, text \in PhoneStepTexts \ MenuTexts :
          (session[u].state = "REG_PHONE" /\ Message(u, text)) =>
              PhoneStepOutcome(u, text)]_vars

\* C15 witness: the longest phone number the pattern admits has been stored at
\* the phone step of the registration
C15_Witness ==
    /\ session["d1"].state = "REG_TRUCK"
    /\ session["d1"].data["phone"] = Phone15
    /\ drivers["d1"] = NULL
    /\ answer = [to |-> "d1", text |-> "Enter truck number:"]

\* C16: at submit-data step 3 a trailer value with a denylisted token, in
\* whatever case (here "xVpn"), is rejected: no Task or Driver row changes, the
\* session stays at the trailer step with task id and BOL in the accumulator,
\* and the driver is re-prompted.
C16_SpamTrailerRejected ==
    [][\A u \in Drivers :
          (session[u].state = "SEND_TRAILER" /\ Message(u, SpamText)) =>
              /\ tasks' = tasks
              /\ drivers' = drivers
              /\ session'[u] = session[u]
              /\ {"task_id", "bol"} \subseteq DOMAIN session'[u].data
              /\ answer' = [to |-> u, text |-> "Invalid trailer number. Please try again."]]_vars

\* C16 witness: the trailer has been refused at step 3 and the task has no
\* delivery data
C16_Witness ==
    /\ answer = [to |-> "d1", text |-> "Invalid trailer number. Please try again."]
    /\ session["d1"].state = "SEND_TRAILER"
    /\ session["d1"].data["task_id"] = 1
    /\ session["d1"].data["bol"] = DigitsText
    /\ tasks[1].trailer_number = NULL

\* the status, the manager, the BOL or the trailer of task t changes
TaskMutated(t) ==
    \/ tasks'[t].status # tasks[t].status
    \/ tasks'[t].manager_id # tasks[t].manager_id
    \/ DeliveryChanged(t)

\* C17: every mutation of a task row refreshes its updated-at: a step of claim,
\* complete or submit that changes the status, manager, BOL or trailer of a
\* task leaves the updated-at of that task at the time of the step.
C17_UpdatedAtRefreshed ==
    [][\A t \in 1..Len(tasks) :
          TaskMutated(t) => tasks'[t].updated_at = now']_vars

\* the transport failures after a store write
Failures == Outcomes \ {"ok"}

\* C18: a notification failure never rolls back a committed store mutation:
\* when the send or edit after the write of create_task, take_task, finish_task
\* or process_trailer fails, the inserted row or the written status, manager,
\* BOL and trailer stay, and the handler ends with its error answer, the user
\* free for the next update.
C18_FailureKeepsWrite ==
    [][/\ \A u \in Drivers :
            create_task_notify(u, FALSE) =>
                /\ local[u].inserted \in 1..Len(tasks')
                /\ tasks'[local[u].inserted].driver_id = u
                /\ tasks' = tasks
                /\ answer' = [to |-> u, text |-> "An error occurred. Please try again later."]
                /\ pc'[u] = "idle"
       /\ \A m \in Managers, outcome \in Failures :
            take_task_update(m, outcome) =>
                /\ tasks'[local[m].task_id].status = "in_progress"
                /\ tasks'[local[m].task_id].manager_id = <<m>>
                /\ answer' = [to |-> m, text |-> "An error occurred"]
                /\ pc'[m] = "idle"
       /\ \A m \in Managers, outcome \in Failures :
            finish_task_update(m, outcome) =>
                /\ tasks'[local[m].task_id].status = "completed"
                /\ answer' = [to |-> m, text |-> "An error occurred"]
                /\ pc'[m] = "idle"
       /\ \A u \in Drivers, text \in SubmitTexts :
            (process_trailer(u, text, FALSE) /\ session'[u].state = NONE) =>
                /\ tasks'[session[u].data["task_id"]].bol_number = <<session[u].data["bol"]>>
                /\ tasks'[session[u].data["task_id"]].trailer_number = <<Strip(text)>>
                /\ answer' = [to |-> u, text |-> "An error occurred. Please try again later."]
                /\ pc'[u] = "idle"]_vars

\* C18 witness: the edit of the channel message failed after the claim of m1
\* was written: the task is claimed, its message still has the 'Take Task'
\* button, m1 got the error answer and has no update in flight
C18_Witness ==
    /\ answer = [to |-> "m1", text |-> "An error occurred"]
    /\ pc["m1"] = "idle"
    /\ \E i \in 1..Len(channel) :
          /\ channel[i].button = "take"
          /\ tasks[channel[i].task_id].status = "in_progress"
          /\ tasks[channel[i].task_id].manager_id = <<"m1">>

\* the session of u holds the fields the terminal step of a profile dialog reads
HasProfileFields(u) == {"company", "full_name", "phone"} \subseteq DOMAIN session[u].data

\* C19: whenever the terminal store write of a dialog succeeds (the INSERT of
\* process_truck, the UPDATE of process_edit_truck, the update of
\* process_trailer), the session of the user is cleared at the end of that
\* message, whether or not the confirmation was delivered.
C19_ClearedAfterWrite ==
    [][\A u \in Drivers, text \in SessionTexts, sent \in BOOLEAN :
          /\ (/\ process_truck(u, text, sent)
              /\ Strip(text) # <<>>
              /\ HasProfileFields(u)
              /\ drivers[u] = NULL) =>
                 session'[u] = [state |-> NONE, data |-> EmptyData]
          /\ (/\ process_edit_truck(u, text, sent)
              /\ Strip(text) # <<>>
              /\ HasProfileFields(u)) =>
                 session'[u] = [state |-> NONE, data |-> EmptyData]
          /\ (/\ process_trailer(u, text, sent)
              /\ {"task_id", "bol"} \subseteq DOMAIN session[u].data
              /\ ~IsSpam(Strip(text))) =>
                 session'[u] = [state |-> NONE, data |-> EmptyData]]_vars

\* C20: accumulator well-formedness: a session with no step has an empty
\* accumulator, and a session at a terminal step holds every field its
\* handler reads: company, full name and phone at REG_TRUCK and EDIT_TRUCK,
\* task id and BOL at SEND_TRAILER.
C20_AccumulatorWellFormed ==
    \A u \in Drivers :
        /\ session[u].state = NONE => session[u].data = EmptyData
        /\ session[u].state \in {"REG_TRUCK", "EDIT_TRUCK"} =>
              {"company", "full_name", "phone"} \subseteq DOMAIN session[u].data
        /\ session[u].state = "SEND_TRAILER" =>
              {"task_id", "bol"} \subseteq DOMAIN session[u].data

\* C20 witness: the user left the edit dialog after its first step for the
\* submit-data dialog ('Send Data' at EDIT_FULL_NAME) and is now at the last
\* step of that one, the accumulator holding the fields of both
C20_Witness ==
    /\ session["d1"].state = "SEND_TRAILER"
    /\ DOMAIN session["d1"].data = {"company", "task_id", "bol"}

\* C21: stored task fields are always clean: in every reachable state the task
\* type of a row is one of the seven labels, its BOL, when set, is 8 to 12
\* digits, and neither of them, nor the status or the trailer, contains a
\* denylisted token in whatever case; so the screening of take_task never
\* answers 'This task is not available.'.
C21_StoredFieldsClean ==
    /\ [](\A t \in 1..Len(tasks) :
            /\ tasks[t].task_type \in TaskLabels
            /\ tasks[t].bol_number # NULL =>
                  /\ Len(tasks[t].bol_number[1]) \in 8..12
                  /\ \A i \in 1..Len(tasks[t].bol_number[1]) :
                        tasks[t].bol_number[1][i] \in DecimalDigits
            /\ \A field \in TextFields(tasks[t]) : ~IsSpam(field))
    /\ [][\A m \in Managers, i \in 1..MaxTasks :
            take_task(m, i) => answer'.text # "This task is not available."]_vars

\* C21 witness: a trailer with a denylisted token has been refused, another has
\* been stored, and take_task, pressed again on that task, has screened the
\* stored fields and gone on to its status check
C21_Witness ==
    /\ answer = [to |-> "m1", text |-> "Task is already taken or completed."]
    /\ \E i \in 1..Len(channel) :
          /\ tasks[channel[i].task_id].trailer_number = <<FreeText>>
          /\ tasks[channel[i].task_id].bol_number = <<BolText>>

====
